---- MODULE Spec2Model ----
(***************************************************************************)
(* Model of the design-pattern demo application: the navigation shell      *)
(* (App.vue, and its markRaw revision) and the pattern panels it mounts.   *)
(* A panel's <script setup> body runs once per mount, so every class,      *)
(* `let` and `ref` declared there lives exactly as long as the mounted     *)
(* panel instance.                                                         *)
(***************************************************************************)
EXTENDS Integers, Sequences, FiniteSets, TLC

(* ------------------------------ bounds --------------------------------- *)
MaxRequests == 7      \* request() calls on one TrafficLightContext
MaxClicks == 3        \* loadImage / changeTemperature clicks per mount
MaxToggles == 3       \* checkbox toggles per mount of the Decorator panel
MaxClock == 1         \* wall-clock ticks
MaxLoads == 2         \* evaluations of the Singleton panel's script over the app's life
MaxObservers == 3     \* observers available to the WeatherStation harness

(* --------------------------- object references ------------------------- *)
\* A reference is a sequence: empty for undefined / null, else one object.
Undefined == <<>>
Ref(obj) == <<obj>>
IsSet(r) == r # <<>>
Deref(r) == r[1]

VARIABLES
  shell,            \* which revision of the shell is deployed
  build,            \* template compilation mode of the build
  currentPattern,   \* what a template read of currentPattern yields
  rendered,         \* the value <component :is> received at the last render
  activeTabs,       \* tabs carrying class "active" at the last render
  leftModified,     \* holds "state" once the State panel was unmounted after a request
  clock,            \* wall clock read by new Date()
  thrown,           \* whether a handler has ended in an uncaught TypeError
  trafficLight,     \* State panel: let trafficLight
  stateOutput,      \* State panel: output
  requestCount,     \* State panel: request() calls on the current context
  setStateCalls,    \* State panel: setState() calls on the current context
  image1,           \* Proxy panel: let image1
  image2,           \* Proxy panel: let image2
  proxyOutput,      \* Proxy panel: output, a list of entries (each a list of lines)
  realImagesBuilt,  \* Proxy panel: RealImage constructor runs, per proxy
  displayCalls,     \* Proxy panel: display() calls, per proxy
  weatherStation,   \* Observer panel: const weatherStation
  observerOutput,   \* Observer panel: output, a list of lines
  stationLogs,      \* the string[] returned by the last setTemperature call
  observerGood,     \* Observer panel: goodOutput
  observerBad,      \* Observer panel: badOutput
  singletonClass,   \* Singleton panel: the class Singleton of the mounted panel
  singletonLoads,   \* evaluations of the class Singleton declaration so far
  eagerOutput,      \* Singleton panel: eagerOutput
  singletonGood,    \* Singleton panel: goodOutput
  singletonBad,     \* Singleton panel: badOutput
  options,          \* Decorator panel: reactive options
  toggleLog,        \* Decorator panel: checkboxes toggled since mount, in order
  decoratorOutput,  \* Decorator panel: output
  decoratorGood,    \* Decorator panel: goodOutput
  decoratorBad,     \* Decorator panel: badOutput
  factory,          \* Abstract Factory panel: let factory
  app,              \* Abstract Factory panel: let app
  afOutput,         \* Abstract Factory panel: output
  afGood,           \* Abstract Factory panel: goodOutput
  afBad,            \* Abstract Factory panel: badOutput
  shapes,           \* Visitor panel: const shapes
  visitorOutput,    \* Visitor panel: output, a list of lines
  visitLog,         \* Visitor panel: visit calls made by the last runVisitor
  visitorGood,      \* Visitor panel: goodOutput
  visitorBad,       \* Visitor panel: badOutput
  logistics,        \* Factory Method panel: let logistics
  fmOutput,         \* Factory Method panel: output
  transports,       \* Factory Method panel: products constructed since mount
  deliveries,       \* Factory Method panel: planDelivery() calls since mount
  adapterOutput,    \* Adapter panel: output, a list of lines
  logEventCalls,    \* Adapter panel: logEvent calls made by the last click
  lastAdapter,      \* Adapter panel: the adapter of the last click, after its use
  adapterRuns       \* Adapter panel: runClientCode clicks since mount

shellVars == <<shell, build, currentPattern, rendered, activeTabs, leftModified>>
statePanelVars == <<trafficLight, stateOutput, requestCount, setStateCalls>>
proxyPanelVars == <<image1, image2, proxyOutput, realImagesBuilt, displayCalls>>
observerPanelVars ==
  <<weatherStation, observerOutput, stationLogs, observerGood, observerBad>>
singletonPanelVars ==
  <<singletonClass, singletonLoads, eagerOutput, singletonGood, singletonBad>>
decoratorPanelVars ==
  <<options, toggleLog, decoratorOutput, decoratorGood, decoratorBad>>
afPanelVars == <<factory, app, afOutput, afGood, afBad>>
visitorPanelVars == <<shapes, visitorOutput, visitLog, visitorGood, visitorBad>>
fmPanelVars == <<logistics, fmOutput, transports, deliveries>>
adapterPanelVars == <<adapterOutput, logEventCalls, lastAdapter, adapterRuns>>
panelVars == <<statePanelVars, proxyPanelVars, observerPanelVars,
               singletonPanelVars, decoratorPanelVars, afPanelVars,
               visitorPanelVars, fmPanelVars, adapterPanelVars>>
vars == <<shellVars, clock, thrown, panelVars>>

(* ------------------------------- shell --------------------------------- *)
PatternKeys == <<"singleton", "factoryMethod", "abstractFactory", "adapter",
                 "decorator", "proxy", "observer", "visitor", "state">>
Tabs == 1..Len(PatternKeys)

\* An imported single-file component.
Component(key) == [tag |-> "component", key |-> key]
\* shallowRef(x): a new ref object whose .value is x.
shallowRef(x) == [tag |-> "ref", key |-> x.key]
\* markRaw(x): x itself, flagged as never to be made reactive.
markRaw(x) == x
isRef(v) == v.tag = "ref"
\* .value of a ref object made by shallowRef.
RefValue(r) == Component(r.key)

\* patterns[i].component of the deployed shell revision.
patterns(sh) ==
  [i \in Tabs |->
     [key |-> PatternKeys[i],
      component |-> IF sh = "shallowRef"
                      THEN shallowRef(Component(PatternKeys[i]))
                      ELSE markRaw(Component(PatternKeys[i]))]]

\* :class="{ active: currentPattern === pattern.component }"
ActiveTabs(sh, cur) == {i \in Tabs : cur = patterns(sh)[i].component}

\* <component :is="v">: a component object is mounted; any other object is
\* taken as a component without setup or render and shows nothing.
MountedPanel(v) == IF v.tag = "component" THEN v.key ELSE "none"

(* ---------------------------- State panel ------------------------------ *)
\* RedState.handle / GreenState.handle / YellowState.handle: the action
\* returned, and the state handed to context.setState.
HandleAction(st) ==
  CASE st = "RedState" -> "STOP"
    [] st = "GreenState" -> "GO"
    [] st = "YellowState" -> "CAUTION"
\* a cycle that leaves Yellow for Green, never coming back to Red
HandleNextSkipsRed(st) ==
  CASE st = "RedState" -> "GreenState"
    [] st = "GreenState" -> "YellowState"
    [] st = "YellowState" -> "GreenState"
HandleNext(st) ==
  CASE st = "RedState" -> "GreenState"
    [] st = "GreenState" -> "YellowState"
    [] st = "YellowState" -> "RedState"

\* new TrafficLightContext()
NewTrafficLightContext == [currentState |-> "RedState"]
\* a setState that keeps the state the context already has
setStateKeepsCurrent(ctx, newState) == ctx
\* TrafficLightContext.setState
setState(ctx, newState) == [ctx EXCEPT !.currentState = newState]
\* a handle that moves the context on twice
handleSetsTwice(st, context) ==
  [ctx |-> setState(setState(context, HandleNext(st)), HandleNext(HandleNext(st))),
   result |-> HandleAction(st),
   setStateCalls |-> 2]
\* handle(context) of the state object st: the context after the call, the
\* returned string and the number of context.setState calls made
handle(st, context) ==
  [ctx |-> setState(context, HandleNext(st)),
   result |-> HandleAction(st),
   setStateCalls |-> 1]
\* TrafficLightContext.request: delegates to currentState.handle(this)
request(ctx) == handle(ctx.currentState, ctx)

StateUnmounted ==
  /\ trafficLight' = Undefined
  /\ stateOutput' = ""
  /\ requestCount' = 0
  /\ setStateCalls' = 0
\* setup, then onMounted
StateMounted ==
  /\ trafficLight' = Ref(NewTrafficLightContext)
  /\ stateOutput' = "CREATED"
  /\ requestCount' = 0
  /\ setStateCalls' = 0

\* click on the single button of the State panel
changeState ==
  /\ MountedPanel(rendered) = "state"
  /\ requestCount < MaxRequests
  /\ IF IsSet(trafficLight)
       THEN LET r == request(Deref(trafficLight))
            IN /\ trafficLight' = Ref(r.ctx)
               /\ stateOutput' = r.result
               /\ setStateCalls' = setStateCalls + r.setStateCalls
               /\ requestCount' = requestCount + 1
               /\ thrown' = thrown
       \* trafficLight.request() on undefined
       ELSE thrown' = TRUE /\ UNCHANGED statePanelVars
  /\ UNCHANGED <<shellVars, clock, adapterPanelVars, visitorPanelVars, fmPanelVars,
                 proxyPanelVars, observerPanelVars,
                 singletonPanelVars, decoratorPanelVars, afPanelVars>>

(* ---------------------------- Proxy panel ------------------------------ *)
Line(kind, arg) == [kind |-> kind, arg |-> arg]
File1 == "Vacation_Photo_001.jpg"
File2 == "Project_Diagram_002.png"

\* new RealImage(filename)
NewRealImage(filename) ==
  [filename |-> filename, loadLog |-> Line("loadLog", filename)]
\* RealImage.display
RealImageDisplay(img) == Line("realDisplay", img.filename)
\* RealImage.getLoadLog
getLoadLog(img) == img.loadLog

\* a ProxyImage whose constructor already loads the image
NewProxyImageEager(filename) ==
  [filename |-> filename, realImage |-> Ref(NewRealImage(filename))]
\* new ProxyImage(filename)
NewProxyImage(filename) == [filename |-> filename, realImage |-> Undefined]

\* display() that builds a RealImage on every call and never stores it
displayNoCache(p) ==
  LET img == NewRealImage(p.filename)
  IN [proxy |-> p,
      logs |-> <<Line("displayCalled", p.filename), Line("creating", ""),
                 getLoadLog(img), RealImageDisplay(img)>>,
      built |-> 1]
\* display() that pushes the load log after the if, on every call
displayLogsLoadAlways(p) ==
  LET head == <<Line("displayCalled", p.filename)>>
      img == IF p.realImage = Undefined THEN NewRealImage(p.filename)
                                        ELSE Deref(p.realImage)
  IN [proxy |-> [p EXCEPT !.realImage = Ref(img)],
      logs |-> head
                 \o (IF p.realImage = Undefined THEN <<Line("creating", "")>>
                                                ELSE <<Line("reuse", "")>>)
                 \o <<getLoadLog(img), RealImageDisplay(img)>>,
      built |-> IF p.realImage = Undefined THEN 1 ELSE 0]
\* ProxyImage.display: the proxy after the call, the lines of the returned
\* transcript, and the number of RealImage objects it constructed.
display(p) ==
  LET head == <<Line("displayCalled", p.filename)>>
  IN IF p.realImage = Undefined
       THEN LET img == NewRealImage(p.filename)
            IN [proxy |-> [p EXCEPT !.realImage = Ref(img)],
                logs |-> head \o <<Line("creating", ""), getLoadLog(img),
                                   RealImageDisplay(img)>>,
                built |-> 1]
       ELSE [proxy |-> p,
             logs |-> head \o <<Line("reuse", ""),
                                RealImageDisplay(Deref(p.realImage))>>,
             built |-> 0]

ProxyUnmounted ==
  /\ image1' = Undefined
  /\ image2' = Undefined
  /\ proxyOutput' = <<>>
  /\ realImagesBuilt' = [n \in 1..2 |-> 0]
  /\ displayCalls' = [n \in 1..2 |-> 0]
\* setup, then onMounted
ProxyMounted ==
  /\ image1' = Ref(NewProxyImage(File1))
  /\ image2' = Ref(NewProxyImage(File2))
  /\ proxyOutput' = <<<<Line("proxiesCreated", "")>>>>
  /\ realImagesBuilt' = [n \in 1..2 |-> 0]
  /\ displayCalls' = [n \in 1..2 |-> 0]

ImageNumberText(n) == IF n = 1 THEN "1" ELSE "2"
\* a third button wired to the second image
ButtonImageNumberThirdIsSecond(b) == <<1, 2, 2>>[b]
\* the argument each of the three buttons passes to loadImage
ButtonImageNumber(b) == <<1, 2, 1>>[b]

\* a panel whose two proxies keep their RealImage in one shared slot
loadImageSharedCache(imageNumber) ==
  /\ MountedPanel(rendered) = "proxy"
  /\ Len(proxyOutput) < 1 + 2 * MaxClicks
  /\ LET header == <<Line("click", ImageNumberText(imageNumber))>>
         d == IF imageNumber = 1 THEN display(Deref(image1))
                                 ELSE display(Deref(image2))
     IN /\ image1' = Ref([Deref(image1) EXCEPT !.realImage = d.proxy.realImage])
        /\ image2' = Ref([Deref(image2) EXCEPT !.realImage = d.proxy.realImage])
        /\ proxyOutput' = Append(Append(proxyOutput, header), d.logs)
        /\ realImagesBuilt' =
             [realImagesBuilt EXCEPT ![imageNumber] = @ + d.built]
        /\ displayCalls' = [displayCalls EXCEPT ![imageNumber] = @ + 1]
  /\ UNCHANGED <<shellVars, clock, adapterPanelVars, thrown, visitorPanelVars, fmPanelVars,
                 statePanelVars, observerPanelVars,
                 singletonPanelVars, decoratorPanelVars, afPanelVars>>
\* a handler that assigns a new list holding only the latest click
loadImageReplacesOutput(imageNumber) ==
  /\ MountedPanel(rendered) = "proxy"
  /\ Len(proxyOutput) < 1 + 2 * MaxClicks
  /\ LET header == <<Line("click", ImageNumberText(imageNumber))>>
         d == IF imageNumber = 1 THEN display(Deref(image1))
                                 ELSE display(Deref(image2))
     IN /\ IF imageNumber = 1
             THEN image1' = Ref(d.proxy) /\ image2' = image2
             ELSE image2' = Ref(d.proxy) /\ image1' = image1
        /\ proxyOutput' = <<proxyOutput[1], header, d.logs>>
        /\ realImagesBuilt' =
             [realImagesBuilt EXCEPT ![imageNumber] = @ + d.built]
        /\ displayCalls' = [displayCalls EXCEPT ![imageNumber] = @ + 1]
  /\ UNCHANGED <<shellVars, clock, adapterPanelVars, thrown, visitorPanelVars, fmPanelVars,
                 statePanelVars, observerPanelVars,
                 singletonPanelVars, decoratorPanelVars, afPanelVars>>
\* click on a button of the Proxy panel; the first and the third button
\* both call loadImage(1)
loadImage(imageNumber) ==
  /\ MountedPanel(rendered) = "proxy"
  /\ Len(proxyOutput) < 1 + 2 * MaxClicks
  /\ IF IsSet(IF imageNumber = 1 THEN image1 ELSE image2)
       THEN LET header == <<Line("click", ImageNumberText(imageNumber))>>
                d == IF imageNumber = 1 THEN display(Deref(image1))
                                        ELSE display(Deref(image2))
            IN /\ IF imageNumber = 1
                    THEN image1' = Ref(d.proxy) /\ image2' = image2
                    ELSE image2' = Ref(d.proxy) /\ image1' = image1
               /\ proxyOutput' = Append(Append(proxyOutput, header), d.logs)
               /\ realImagesBuilt' =
                    [realImagesBuilt EXCEPT ![imageNumber] = @ + d.built]
               /\ displayCalls' = [displayCalls EXCEPT ![imageNumber] = @ + 1]
               /\ thrown' = thrown
       \* image1.display() / image2.display() on undefined
       ELSE thrown' = TRUE /\ UNCHANGED proxyPanelVars
  /\ UNCHANGED <<shellVars, clock, adapterPanelVars, visitorPanelVars, fmPanelVars,
                 statePanelVars, observerPanelVars,
                 singletonPanelVars, decoratorPanelVars, afPanelVars>>

(* --------------------------- Observer panel ---------------------------- *)
TempRange == 40
TempOffset == 5
\* values Math.floor(Math.random() * 40) - 5 can take: the two extremes
Temps == {0 - TempOffset, TempRange - 1 - TempOffset}

\* Observers are told apart by identity; a DisplayObserver's name is its number.
Observers == 1..MaxObservers
MobileDisplay == 1
WebDisplay == 2

Entry(kind, who, n) == [kind |-> kind, who |-> who, n |-> n]
Includes(seq, x) == \E i \in 1..Len(seq) : seq[i] = x
\* Array.prototype.indexOf: first index holding x, 0 when there is none
IndexOf(seq, x) ==
  IF Includes(seq, x)
    THEN CHOOSE i \in 1..Len(seq) :
           seq[i] = x /\ \A j \in 1..(i - 1) : seq[j] # x
    ELSE 0
\* Array.prototype.splice(i, 1)
Splice1(seq, i) == SubSeq(seq, 1, i - 1) \o SubSeq(seq, i + 1, Len(seq))

\* new WeatherStation()
NewWeatherStation == [observers |-> <<>>, temperature |-> 0]
\* subscribe without the includes check
subscribeNoCheck(ws, observer) ==
  [ws EXCEPT !.observers = Append(@, observer)]
\* WeatherStation.subscribe
subscribe(ws, observer) ==
  IF Includes(ws.observers, observer)
    THEN ws
    ELSE [ws EXCEPT !.observers = Append(@, observer)]
\* unsubscribe without the "not found" check: splice(-1, 1) drops the last
unsubscribeNoGuard(ws, observer) ==
  LET observerIndex == IndexOf(ws.observers, observer)
  IN IF observerIndex = 0
       THEN [ws EXCEPT !.observers = SubSeq(@, 1, Len(@) - 1)]
       ELSE [ws EXCEPT !.observers = Splice1(@, observerIndex)]
\* WeatherStation.unsubscribe
unsubscribe(ws, observer) ==
  LET observerIndex == IndexOf(ws.observers, observer)
  IN IF observerIndex = 0
       THEN ws
       ELSE [ws EXCEPT !.observers = Splice1(@, observerIndex)]
\* DisplayObserver.update
update(observer, temperature) == Entry("update", observer, temperature)
\* the for-of loop of notify
RECURSIVE NotifyLoop(_, _)
NotifyLoop(observers, temperature) ==
  IF observers = <<>>
    THEN <<>>
    ELSE <<update(Head(observers), temperature)>>
           \o NotifyLoop(Tail(observers), temperature)
\* notify that walks the observers from the last to the first
RECURSIVE NotifyLoopBackwards(_, _)
NotifyLoopBackwards(observers, temperature) ==
  IF observers = <<>>
    THEN <<>>
    ELSE NotifyLoopBackwards(Tail(observers), temperature)
           \o <<update(Head(observers), temperature)>>
notifyBackwards(ws) ==
  <<Entry("count", 0, Len(ws.observers))>>
    \o NotifyLoopBackwards(ws.observers, ws.temperature)
\* WeatherStation.notify
notify(ws) ==
  <<Entry("count", 0, Len(ws.observers))>>
    \o NotifyLoop(ws.observers, ws.temperature)
\* a setTemperature that notifies first and stores afterwards
setTemperatureNotifiesFirst(ws, temp) ==
  LET stored == [ws EXCEPT !.temperature = temp]
  IN [ws |-> stored,
      logs |-> <<Entry("header", 0, temp)>> \o notify(ws)]
\* WeatherStation.setTemperature: the station after the call and the logs
setTemperature(ws, temp) ==
  LET stored == [ws EXCEPT !.temperature = temp]
  IN [ws |-> stored,
      logs |-> <<Entry("header", 0, temp)>> \o notify(stored)]

ObserverUnmounted ==
  /\ weatherStation' = Undefined
  /\ observerOutput' = <<>>
  /\ stationLogs' = <<>>
  /\ observerGood' = <<>>
  /\ observerBad' = <<>>
\* setup, then onMounted
ObserverMounted ==
  /\ weatherStation' =
       Ref(subscribe(subscribe(NewWeatherStation, MobileDisplay), WebDisplay))
  /\ observerOutput' = <<Entry("initialized", 0, 0), Entry("subscribed", 0, 0)>>
  /\ stationLogs' = <<>>
  /\ observerGood' = <<>>
  /\ observerBad' = <<>>

\* a handler that only prints the header when the number drawn is the
\* temperature already stored
changeTemperatureOnlyWhenChanged ==
  /\ MountedPanel(rendered) = "observer"
  /\ Len(observerOutput) < 2 + 4 * MaxClicks
  /\ \E newTemp \in Temps :
       LET r == setTemperature(Deref(weatherStation), newTemp)
       IN IF newTemp = Deref(weatherStation).temperature
            THEN /\ weatherStation' = weatherStation
                 /\ observerOutput' = Append(observerOutput, r.logs[1])
                 /\ stationLogs' = <<r.logs[1]>>
            ELSE /\ weatherStation' = Ref(r.ws)
                 /\ observerOutput' = observerOutput \o r.logs
                 /\ stationLogs' = r.logs
  /\ UNCHANGED <<shellVars, clock, adapterPanelVars, thrown, visitorPanelVars, fmPanelVars,
                 statePanelVars, proxyPanelVars, observerGood,
                 observerBad, singletonPanelVars, decoratorPanelVars, afPanelVars>>
\* click on the button of the Observer panel
changeTemperature ==
  /\ MountedPanel(rendered) = "observer"
  /\ Len(observerOutput) < 2 + 4 * MaxClicks
  /\ \E newTemp \in Temps :
       LET r == setTemperature(Deref(weatherStation), newTemp)
       IN /\ weatherStation' = Ref(r.ws)
          /\ observerOutput' = observerOutput \o r.logs
          /\ stationLogs' = r.logs
  /\ UNCHANGED <<shellVars, clock, adapterPanelVars, thrown, visitorPanelVars, fmPanelVars,
                 statePanelVars, proxyPanelVars, observerGood,
                 observerBad, singletonPanelVars, decoratorPanelVars, afPanelVars>>

\* click on the "good" button of the Observer panel: a fixed text
ObserverShowGoodExample ==
  /\ MountedPanel(rendered) = "observer"
  /\ observerBad' = <<>>
  /\ observerGood' = <<"observer pattern used">>
  /\ UNCHANGED <<shellVars, clock, adapterPanelVars, thrown, visitorPanelVars, fmPanelVars,
                 statePanelVars, proxyPanelVars,
                 weatherStation, observerOutput, stationLogs,
                 singletonPanelVars, decoratorPanelVars, afPanelVars>>

\* click on the "bad" button of the Observer panel: a fixed text
ObserverShowBadExample ==
  /\ MountedPanel(rendered) = "observer"
  /\ observerGood' = <<>>
  /\ observerBad' = <<"direct calls">>
  /\ UNCHANGED <<shellVars, clock, adapterPanelVars, thrown, visitorPanelVars, fmPanelVars,
                 statePanelVars, proxyPanelVars,
                 weatherStation, observerOutput, stationLogs,
                 singletonPanelVars, decoratorPanelVars, afPanelVars>>

(* --------------------------- Singleton panel --------------------------- *)
IdRange == 10000
\* values Math.floor(Math.random() * 10000) can take: the two extremes
RegularIds == {0, IdRange - 1}

NoOutput == [ops |-> <<>>, same |-> <<>>]

\* Evaluating `class Singleton { static instance = new Singleton() ... }`:
\* the class of the load-th evaluation, its static field holding the one
\* object its constructor made at time now.
LoadSingletonClass(load, now) ==
  [load |-> load,
   constructed |-> 1,
   instance |-> [load |-> load, oid |-> 1, creationTime |-> now]]
\* getInstance that constructs a new object on every call
getInstanceFresh(cls) ==
  [cls |-> [cls EXCEPT !.constructed = @ + 1],
   result |-> [load |-> cls.load, oid |-> cls.constructed + 1,
               creationTime |-> clock]]
\* Singleton.getInstance: the class after the call and the object returned
getInstance(cls) == [cls |-> cls, result |-> cls.instance]
\* Singleton.operation: the text names the creation time only
operation(obj) == [time |-> obj.creationTime, id |-> <<>>]
\* new RegularClass(), the oid-th object made by the running handler
NewRegularClass(oid, now, id) == [oid |-> oid, creationTime |-> now, id |-> id]
\* RegularClass.operation
RegularOperation(obj) == [time |-> obj.creationTime, id |-> <<obj.id>>]
\* a === b on objects
SameObject(a, b) == a = b

SingletonUnmounted ==
  /\ singletonClass' = Undefined
  /\ singletonLoads' = singletonLoads
  /\ eagerOutput' = NoOutput
  /\ singletonGood' = NoOutput
  /\ singletonBad' = NoOutput
\* setup: the class declaration is part of the script body
SingletonMounted ==
  /\ singletonLoads < MaxLoads
  /\ singletonLoads' = singletonLoads + 1
  /\ singletonClass' = Ref(LoadSingletonClass(singletonLoads + 1, clock))
  /\ eagerOutput' = NoOutput
  /\ singletonGood' = NoOutput
  /\ singletonBad' = NoOutput

testEagerSingleton ==
  /\ MountedPanel(rendered) = "singleton"
  /\ LET c1 == getInstance(Deref(singletonClass))
         c2 == getInstance(c1.cls)
         s1 == c1.result
         s2 == c2.result
     IN /\ singletonClass' = Ref(c2.cls)
        /\ eagerOutput' = [ops |-> <<operation(s1), operation(s2)>>,
                           same |-> <<SameObject(s1, s2)>>]
  /\ UNCHANGED <<shellVars, clock, adapterPanelVars, thrown, visitorPanelVars, fmPanelVars,
                 statePanelVars, proxyPanelVars,
                 observerPanelVars, singletonLoads, singletonGood, singletonBad,
                 decoratorPanelVars, afPanelVars>>

\* a showGoodExample that does not touch badOutput
SingletonShowGoodExampleKeepsBad ==
  /\ MountedPanel(rendered) = "singleton"
  /\ singletonBad' = singletonBad
  /\ LET c1 == getInstance(Deref(singletonClass))
         c2 == getInstance(c1.cls)
         c3 == getInstance(c2.cls)
         instance1 == c1.result
         instance2 == c2.result
         instance3 == c3.result
     IN /\ singletonClass' = Ref(c3.cls)
        /\ singletonGood' =
             [ops |-> <<operation(instance1), operation(instance2),
                        operation(instance3)>>,
              same |-> <<SameObject(instance1, instance2),
                         SameObject(instance2, instance3),
                         SameObject(instance1, instance3)>>]
  /\ UNCHANGED <<shellVars, clock, adapterPanelVars, thrown, visitorPanelVars, fmPanelVars,
                 statePanelVars, proxyPanelVars,
                 observerPanelVars, singletonLoads, eagerOutput,
                 decoratorPanelVars, afPanelVars>>
SingletonShowGoodExample ==
  /\ MountedPanel(rendered) = "singleton"
  /\ singletonBad' = NoOutput
  /\ LET c1 == getInstance(Deref(singletonClass))
         c2 == getInstance(c1.cls)
         c3 == getInstance(c2.cls)
         instance1 == c1.result
         instance2 == c2.result
         instance3 == c3.result
     IN /\ singletonClass' = Ref(c3.cls)
        /\ singletonGood' =
             [ops |-> <<operation(instance1), operation(instance2),
                        operation(instance3)>>,
              same |-> <<SameObject(instance1, instance2),
                         SameObject(instance2, instance3),
                         SameObject(instance1, instance3)>>]
  /\ UNCHANGED <<shellVars, clock, adapterPanelVars, thrown, visitorPanelVars, fmPanelVars,
                 statePanelVars, proxyPanelVars,
                 observerPanelVars, singletonLoads, eagerOutput,
                 decoratorPanelVars, afPanelVars>>

SingletonShowBadExample ==
  /\ MountedPanel(rendered) = "singleton"
  /\ singletonGood' = NoOutput
  /\ \E ids \in [1..3 -> RegularIds] :
       LET instance1 == NewRegularClass(1, clock, ids[1])
           instance2 == NewRegularClass(2, clock, ids[2])
           instance3 == NewRegularClass(3, clock, ids[3])
       IN singletonBad' =
            [ops |-> <<RegularOperation(instance1), RegularOperation(instance2),
                       RegularOperation(instance3)>>,
             same |-> <<SameObject(instance1, instance2),
                        SameObject(instance2, instance3),
                        SameObject(instance1, instance3)>>]
  /\ UNCHANGED <<shellVars, clock, adapterPanelVars, thrown, visitorPanelVars, fmPanelVars,
                 statePanelVars, proxyPanelVars,
                 observerPanelVars, singletonClass, singletonLoads, eagerOutput,
                 decoratorPanelVars, afPanelVars>>

(* --------------------------- Decorator panel --------------------------- *)
EspressoCost == 3000
MilkCost == 500
SugarCost == 200
ShotCost == 700
OptionNames == {"milk", "sugar", "shot"}

\* new SimpleEspresso()
NewSimpleEspresso == [class |-> "SimpleEspresso", wrappedCoffee |-> <<>>]
\* new MilkDecorator(coffee) and its siblings: CoffeeDecorator's constructor
\* stores the wrapped coffee
NewMilkDecorator(coffee) == [class |-> "MilkDecorator", wrappedCoffee |-> <<coffee>>]
NewSugarDecorator(coffee) == [class |-> "SugarDecorator", wrappedCoffee |-> <<coffee>>]
NewShotDecorator(coffee) == [class |-> "ShotDecorator", wrappedCoffee |-> <<coffee>>]

\* getCost with a ShotDecorator that inherits CoffeeDecorator.getCost
RECURSIVE getCostShotInherited(_)
getCostShotInherited(coffee) ==
  CASE coffee.class = "SimpleEspresso" -> EspressoCost
    [] coffee.class = "MilkDecorator" ->
         getCostShotInherited(coffee.wrappedCoffee[1]) + MilkCost
    [] coffee.class = "SugarDecorator" ->
         getCostShotInherited(coffee.wrappedCoffee[1]) + SugarCost
    [] coffee.class = "ShotDecorator" ->
         getCostShotInherited(coffee.wrappedCoffee[1])
\* getCost, dispatched on the class; a decorator adds to super.getCost(),
\* which delegates to the wrapped coffee
RECURSIVE getCost(_)
getCost(coffee) ==
  CASE coffee.class = "SimpleEspresso" -> EspressoCost
    [] coffee.class = "MilkDecorator" -> getCost(coffee.wrappedCoffee[1]) + MilkCost
    [] coffee.class = "SugarDecorator" -> getCost(coffee.wrappedCoffee[1]) + SugarCost
    [] coffee.class = "ShotDecorator" -> getCost(coffee.wrappedCoffee[1]) + ShotCost

\* getDescription: the text as the list of its fragments, in order
RECURSIVE getDescription(_)
getDescription(coffee) ==
  CASE coffee.class = "SimpleEspresso" -> <<"espresso">>
    [] coffee.class = "MilkDecorator" ->
         getDescription(coffee.wrappedCoffee[1]) \o <<"+ milk">>
    [] coffee.class = "SugarDecorator" ->
         getDescription(coffee.wrappedCoffee[1]) \o <<"+ sugar">>
    [] coffee.class = "ShotDecorator" ->
         getDescription(coffee.wrappedCoffee[1]) \o <<"+ shot">>

\* wrapping with the shot before the sugar
BuildCoffeeShotBeforeSugar(opts) ==
  LET c0 == NewSimpleEspresso
      c1 == IF opts.milk THEN NewMilkDecorator(c0) ELSE c0
      c2 == IF opts.shot THEN NewShotDecorator(c1) ELSE c1
      c3 == IF opts.sugar THEN NewSugarDecorator(c2) ELSE c2
  IN c3
\* the coffee makeCoffee builds for the given options
BuildCoffee(opts) ==
  LET c0 == NewSimpleEspresso
      c1 == IF opts.milk THEN NewMilkDecorator(c0) ELSE c0
      c2 == IF opts.sugar THEN NewSugarDecorator(c1) ELSE c1
      c3 == IF opts.shot THEN NewShotDecorator(c2) ELSE c2
  IN c3

\* the bad example's classes, one per combination of options
SubclassNames == {"EspressoWithMilk", "EspressoWithMilkAndSugar",
                  "EspressoWithMilkAndShot"}
\* new EspressoWithMilk() and its siblings
NewSubclassCoffee(class) == [class |-> class, wrappedCoffee |-> <<>>]
\* subclasses whose milk-and-shot class was priced without the milk
getCostSubclassShotOnly(coffee) ==
  CASE coffee.class = "EspressoWithMilk" -> 3500
    [] coffee.class = "EspressoWithMilkAndSugar" -> 3700
    [] coffee.class = "EspressoWithMilkAndShot" -> 3700
\* getCost of the hard-coded subclasses
getCostSubclass(coffee) ==
  CASE coffee.class = "EspressoWithMilk" -> 3500
    [] coffee.class = "EspressoWithMilkAndSugar" -> 3700
    [] coffee.class = "EspressoWithMilkAndShot" -> 4200
\* getDescription of the hard-coded subclasses: the literal, cut into the
\* fragments the decorators append
getDescriptionSubclass(coffee) ==
  CASE coffee.class = "EspressoWithMilk" -> <<"espresso", "+ milk">>
    [] coffee.class = "EspressoWithMilkAndSugar" ->
         <<"espresso", "+ milk", "+ sugar">>
    [] coffee.class = "EspressoWithMilkAndShot" ->
         <<"espresso", "+ milk", "+ shot">>

DecoratorFresh ==
  /\ options' = [milk |-> FALSE, sugar |-> FALSE, shot |-> FALSE]
  /\ toggleLog' = <<>>
  /\ decoratorOutput' = <<>>
  /\ decoratorGood' = <<>>
  /\ decoratorBad' = <<>>
DecoratorUnmounted == DecoratorFresh
DecoratorMounted == DecoratorFresh

\* v-model on one of the three checkboxes
ToggleOption(name) ==
  /\ MountedPanel(rendered) = "decorator"
  /\ Len(toggleLog) < MaxToggles
  /\ options' = [options EXCEPT ![name] = ~@]
  /\ toggleLog' = Append(toggleLog, name)
  /\ UNCHANGED <<shellVars, clock, adapterPanelVars, thrown, visitorPanelVars, fmPanelVars,
                 statePanelVars, proxyPanelVars,
                 observerPanelVars, singletonPanelVars, decoratorOutput,
                 decoratorGood, decoratorBad, afPanelVars>>

makeCoffee ==
  /\ MountedPanel(rendered) = "decorator"
  /\ LET coffee == BuildCoffee(options)
     IN decoratorOutput' = <<[description |-> getDescription(coffee),
                              cost |-> getCost(coffee)]>>
  /\ UNCHANGED <<shellVars, clock, adapterPanelVars, thrown, visitorPanelVars, fmPanelVars,
                 statePanelVars, proxyPanelVars,
                 observerPanelVars, singletonPanelVars, options, toggleLog,
                 decoratorGood, decoratorBad, afPanelVars>>

DecoratorShowGoodExample ==
  /\ MountedPanel(rendered) = "decorator"
  /\ decoratorBad' = <<>>
  /\ LET coffee == NewShotDecorator(NewSugarDecorator(NewMilkDecorator(NewSimpleEspresso)))
     IN decoratorGood' = <<[description |-> getDescription(coffee),
                            cost |-> getCost(coffee)]>>
  /\ UNCHANGED <<shellVars, clock, adapterPanelVars, thrown, visitorPanelVars, fmPanelVars,
                 statePanelVars, proxyPanelVars,
                 observerPanelVars, singletonPanelVars, options, toggleLog,
                 decoratorOutput, afPanelVars>>

\* a fixed text
DecoratorShowBadExample ==
  /\ MountedPanel(rendered) = "decorator"
  /\ decoratorGood' = <<>>
  /\ decoratorBad' = <<[description |-> <<"subclass per combination">>, cost |-> 0]>>
  /\ UNCHANGED <<shellVars, clock, adapterPanelVars, thrown, visitorPanelVars, fmPanelVars,
                 statePanelVars, proxyPanelVars,
                 observerPanelVars, singletonPanelVars, options, toggleLog,
                 decoratorOutput, afPanelVars>>

(* ------------------------ Abstract Factory panel ----------------------- *)
\* paint() of the four products
paint(product) ==
  CASE product = "WinButton" -> "Windows button"
    [] product = "WinCheckbox" -> "Windows checkbox"
    [] product = "MacButton" -> "macOS button"
    [] product = "MacCheckbox" -> "macOS checkbox"
\* WinFactory.createButton / MacFactory.createButton
createButton(f) == IF f = "WinFactory" THEN "WinButton" ELSE "MacButton"
\* a MacFactory whose createCheckbox returns a Windows checkbox
createCheckboxAlwaysWin(f) == "WinCheckbox"
\* WinFactory.createCheckbox / MacFactory.createCheckbox
createCheckbox(f) == IF f = "WinFactory" THEN "WinCheckbox" ELSE "MacCheckbox"

\* new Application(factory): button and checkbox are not assigned yet
NewApplication(f) == [factory |-> f, button |-> Undefined, checkbox |-> Undefined]
\* a createUI that forgets the checkbox
ApplicationCreateUINoCheckbox(a) ==
  [a EXCEPT !.button = Ref(createButton(a.factory))]
\* Application.createUI
ApplicationCreateUI(a) ==
  [a EXCEPT !.button = Ref(createButton(a.factory)),
            !.checkbox = Ref(createCheckbox(a.factory))]
\* Application.paintUI reads this.button.paint and this.checkbox.paint: a
\* TypeError when either field was never assigned
paintUIThrows(a) == ~(IsSet(a.button) /\ IsSet(a.checkbox))
\* Application.paintUI: the two lines of the joined text
paintUI(a) == <<paint(Deref(a.button)), paint(Deref(a.checkbox))>>
\* a createMixedUI that pairs the Windows button with the Windows checkbox
createMixedUIOneFamily ==
  <<paint("WinButton"), paint("WinCheckbox"), "", "mixed", "inconsistent">>
\* BadClient.createMixedUI
createMixedUI ==
  <<paint("WinButton"), paint("MacCheckbox"), "", "mixed", "inconsistent">>

AfFresh ==
  /\ factory' = Undefined
  /\ app' = Undefined
  /\ afOutput' = <<>>
  /\ afGood' = <<>>
  /\ afBad' = <<>>
AfUnmounted == AfFresh
AfMounted == AfFresh

\* click on one of the two theme buttons
createUI(os) ==
  /\ MountedPanel(rendered) = "abstractFactory"
  /\ LET f == IF os = "Windows" THEN "WinFactory" ELSE "MacFactory"
         a == ApplicationCreateUI(NewApplication(f))
     IN /\ factory' = Ref(f)
        /\ app' = Ref(a)
        /\ IF paintUIThrows(a)
             THEN thrown' = TRUE /\ afOutput' = afOutput
             ELSE thrown' = thrown /\ afOutput' = <<os>> \o paintUI(a)
  /\ UNCHANGED <<shellVars, clock, adapterPanelVars, visitorPanelVars, fmPanelVars,
                 statePanelVars, proxyPanelVars,
                 observerPanelVars, singletonPanelVars, decoratorPanelVars,
                 afGood, afBad>>

AfShowGoodExample ==
  /\ MountedPanel(rendered) = "abstractFactory"
  /\ afBad' = <<>>
  /\ LET winApp == ApplicationCreateUI(NewApplication("WinFactory"))
         macApp == ApplicationCreateUI(NewApplication("MacFactory"))
     IN IF paintUIThrows(winApp) \/ paintUIThrows(macApp)
          THEN thrown' = TRUE /\ afGood' = afGood
          ELSE /\ thrown' = thrown
               /\ afGood' = <<"factory used", "", "1. Windows">> \o paintUI(winApp)
                               \o <<"", "2. macOS">> \o paintUI(macApp)
                               \o <<"", "consistent">>
  /\ UNCHANGED <<shellVars, clock, adapterPanelVars, visitorPanelVars, fmPanelVars,
                 statePanelVars, proxyPanelVars,
                 observerPanelVars, singletonPanelVars, decoratorPanelVars,
                 factory, app, afOutput>>

AfShowBadExample ==
  /\ MountedPanel(rendered) = "abstractFactory"
  /\ afGood' = <<>>
  /\ afBad' = <<"direct combination", "">> \o createMixedUI \o <<"", "problems">>
  /\ UNCHANGED <<shellVars, clock, adapterPanelVars, thrown, visitorPanelVars, fmPanelVars,
                 statePanelVars, proxyPanelVars,
                 observerPanelVars, singletonPanelVars, decoratorPanelVars,
                 factory, app, afOutput>>

(* ---------------------------- Visitor panel ---------------------------- *)
\* Numbers are carried in millionths; Math.PI to that precision.
Micro == 1000000
MathPI == 3141593
\* Number.prototype.toFixed(2): the decimal text, as a count of hundredths
toFixed2(x) == (x + 5000) \div 10000

\* new Circle(radius), new Square(side)
NewCircle(radius) == [class |-> "Circle", radius |-> radius]
NewSquare(side) == [class |-> "Square", side |-> side]

\* A line of the text: the operation label, the shape label, the dimension
\* printed and the number printed.
VLine(op, shape, dim, fixed) ==
  [op |-> op, shape |-> shape, dim |-> dim, fixed |-> fixed]

\* an area visitor that uses the circumference formula for circles
AreaVisitCircleCircumference(circle) ==
  LET area == 2 * MathPI * circle.radius
  IN VLine("area", "circle", circle.radius, toFixed2(area))
\* AreaCalculator.visitCircle
AreaVisitCircle(circle) ==
  LET area == MathPI * circle.radius * circle.radius
  IN VLine("area", "circle", circle.radius, toFixed2(area))
\* AreaCalculator.visitSquare
AreaVisitSquare(square) ==
  LET area == square.side * square.side * Micro
  IN VLine("area", "square", square.side, toFixed2(area))
\* PerimeterCalculator.visitCircle
PerimeterVisitCircle(circle) ==
  LET perimeter == 2 * MathPI * circle.radius
  IN VLine("perimeter", "circle", circle.radius, toFixed2(perimeter))
\* PerimeterCalculator.visitSquare
PerimeterVisitSquare(square) ==
  LET perimeter == 4 * square.side * Micro
  IN VLine("perimeter", "square", square.side, toFixed2(perimeter))

\* visitor.visitCircle(circle) / visitor.visitSquare(square), dispatched on
\* the class of the visitor
visitCircle(visitor, circle) ==
  IF visitor = "AreaCalculator" THEN AreaVisitCircle(circle)
                                ELSE PerimeterVisitCircle(circle)
visitSquare(visitor, square) ==
  IF visitor = "AreaCalculator" THEN AreaVisitSquare(square)
                                ELSE PerimeterVisitSquare(square)

\* a Square whose accept calls visitCircle
acceptAlwaysCircle(shape, visitor) ==
  [method |-> "visitCircle", arg |-> shape,
   result |-> IF shape.class = "Circle"
                THEN visitCircle(visitor, shape)
                ELSE visitCircle(visitor, NewCircle(shape.side))]
\* Circle.accept / Square.accept, dispatched on the class of the shape: the
\* visit method called, the argument handed to it and the string returned
accept(shape, visitor) ==
  IF shape.class = "Circle"
    THEN [method |-> "visitCircle", arg |-> shape,
          result |-> visitCircle(visitor, shape)]
    ELSE [method |-> "visitSquare", arg |-> shape,
          result |-> visitSquare(visitor, shape)]

VisitorUnmounted ==
  /\ shapes' = <<>>
  /\ visitorOutput' = <<>>
  /\ visitLog' = <<>>
  /\ visitorGood' = <<>>
  /\ visitorBad' = <<>>
\* setup
VisitorMounted ==
  /\ shapes' = <<NewCircle(10), NewSquare(8), NewCircle(5)>>
  /\ visitorOutput' = <<>>
  /\ visitLog' = <<>>
  /\ visitorGood' = <<>>
  /\ visitorBad' = <<>>

\* click on one of the two buttons of the Visitor panel
runVisitor(type) ==
  /\ MountedPanel(rendered) = "visitor"
  /\ LET visitor == IF type = "area" THEN "AreaCalculator"
                                     ELSE "PerimeterCalculator"
         header == IF type = "area" THEN VLine("area", "header", 0, 0)
                                    ELSE VLine("perimeter", "header", 0, 0)
         accepted == [i \in 1..Len(shapes) |-> accept(shapes[i], visitor)]
     IN /\ visitorOutput' =
             <<header>> \o [i \in 1..Len(shapes) |-> accepted[i].result]
        /\ visitLog' =
             [i \in 1..Len(shapes) |->
                [method |-> accepted[i].method, arg |-> accepted[i].arg]]
  /\ UNCHANGED <<shellVars, clock, adapterPanelVars, thrown, statePanelVars, proxyPanelVars,
                 observerPanelVars, singletonPanelVars, decoratorPanelVars,
                 afPanelVars, shapes, visitorGood, visitorBad, fmPanelVars>>

\* a fixed text
VisitorShowGoodExample ==
  /\ MountedPanel(rendered) = "visitor"
  /\ visitorBad' = <<>>
  /\ visitorGood' = <<"visitor pattern used">>
  /\ UNCHANGED <<shellVars, clock, adapterPanelVars, thrown, statePanelVars, proxyPanelVars,
                 observerPanelVars, singletonPanelVars, decoratorPanelVars,
                 afPanelVars, shapes, visitorOutput, visitLog, fmPanelVars>>

\* a fixed text
VisitorShowBadExample ==
  /\ MountedPanel(rendered) = "visitor"
  /\ visitorGood' = <<>>
  /\ visitorBad' = <<"methods added to the elements">>
  /\ UNCHANGED <<shellVars, clock, adapterPanelVars, thrown, statePanelVars, proxyPanelVars,
                 observerPanelVars, singletonPanelVars, decoratorPanelVars,
                 afPanelVars, shapes, visitorOutput, visitLog, fmPanelVars>>

(* ------------------------- Factory Method panel ------------------------ *)
\* new Truck() / new Ship(), the oid-th product made since mount
NewTruck(oid) == [class |-> "Truck", oid |-> oid]
NewShip(oid) == [class |-> "Ship", oid |-> oid]
\* Truck.deliver / Ship.deliver
deliver(transport) ==
  IF transport.class = "Truck" THEN "truck by road" ELSE "ship by sea"
\* a SeaLogistics whose createTransport returns a Truck
createTransportAlwaysTruck(creator, oid) == NewTruck(oid)
\* RoadLogistics.createTransport / SeaLogistics.createTransport
createTransport(creator, oid) ==
  IF creator = "RoadLogistics" THEN NewTruck(oid) ELSE NewShip(oid)
\* Logistics.planDelivery: the product it made and the text returned
planDelivery(creator, oid) ==
  LET transport == createTransport(creator, oid)
  IN [transport |-> transport, result |-> <<"plan", deliver(transport)>>]

FmUnmounted ==
  /\ logistics' = Undefined
  /\ fmOutput' = <<>>
  /\ transports' = <<>>
  /\ deliveries' = 0
FmMounted == FmUnmounted

\* click on one of the two buttons of the Factory Method panel
runLogistics(type) ==
  /\ MountedPanel(rendered) = "factoryMethod"
  /\ deliveries < MaxClicks
  /\ LET creator == IF type = "road" THEN "RoadLogistics" ELSE "SeaLogistics"
         p == planDelivery(creator, Len(transports) + 1)
     IN /\ logistics' = Ref(creator)
        /\ fmOutput' = p.result
        /\ transports' = Append(transports, p.transport)
  /\ deliveries' = deliveries + 1
  /\ UNCHANGED <<shellVars, clock, adapterPanelVars, thrown, statePanelVars, proxyPanelVars,
                 observerPanelVars, singletonPanelVars, decoratorPanelVars,
                 afPanelVars, visitorPanelVars>>

(* ---------------------------- Adapter panel ---------------------------- *)
\* A line of text: who wrote it, and the event name and value it shows.
ALine(from, name, value) == [from |-> from, name |-> name, value |-> value]
\* new OldAnalyticsService(), the oid-th made since mount
NewOldAnalyticsService(oid) == [class |-> "OldAnalyticsService", oid |-> oid]
\* OldAnalyticsService.logEvent
logEvent(service, eventName, eventValue) ==
  ALine("OldAnalytics", eventName, eventValue)
\* new AnalyticsAdapter(adaptee)
NewAnalyticsAdapter(adaptee) == [adaptee |-> adaptee]
\* a sendRequest that logs the event twice
sendRequestLogsTwice(adapter, data) ==
  LET result == logEvent(adapter.adaptee, data.type, data.amount)
  IN [adapter |-> adapter,
      calls |-> <<[on |-> adapter.adaptee, eventName |-> data.type,
                   eventValue |-> data.amount],
                  [on |-> adapter.adaptee, eventName |-> data.type,
                   eventValue |-> data.amount]>>,
      result |-> <<ALine("Adapter", "", 0), result>>]
\* AnalyticsAdapter.sendRequest: the adapter after the call, the logEvent
\* calls it made and the two lines of the returned text
sendRequest(adapter, data) ==
  LET result == logEvent(adapter.adaptee, data.type, data.amount)
  IN [adapter |-> adapter,
      calls |-> <<[on |-> adapter.adaptee, eventName |-> data.type,
                   eventValue |-> data.amount]>>,
      result |-> <<ALine("Adapter", "", 0), result>>]
\* Client.sendData
sendData(service) ==
  LET dataToLog == [type |-> "purchase", amount |-> 15000]
  IN sendRequest(service, dataToLog)

AdapterUnmounted ==
  /\ adapterOutput' = <<>>
  /\ logEventCalls' = <<>>
  /\ lastAdapter' = Undefined
  /\ adapterRuns' = 0
AdapterMounted == AdapterUnmounted

\* click on the button of the Adapter panel
runClientCode ==
  /\ MountedPanel(rendered) = "adapter"
  /\ adapterRuns < MaxClicks
  /\ LET oldService == NewOldAnalyticsService(adapterRuns + 1)
         adapter == NewAnalyticsAdapter(oldService)
         r == sendData(adapter)
     IN /\ adapterOutput' = r.result
        /\ logEventCalls' = r.calls
        /\ lastAdapter' = Ref(r.adapter)
  /\ adapterRuns' = adapterRuns + 1
  /\ UNCHANGED <<shellVars, clock, thrown, statePanelVars, proxyPanelVars,
                 observerPanelVars, singletonPanelVars, decoratorPanelVars,
                 afPanelVars, visitorPanelVars, fmPanelVars>>

(* --------------------------- navigation -------------------------------- *)
\* The State panel, if it is on display and a click has changed it since
\* it was mounted.
ModifiedPanels ==
  {k \in {"state"} : MountedPanel(rendered) = k /\ requestCount > 0}

\* a shell that keeps the State panel alive while it is not on display
RemountKeepAlive(v) ==
  /\ IF MountedPanel(v) = "state" /\ ~IsSet(trafficLight)
       THEN StateMounted
       ELSE UNCHANGED statePanelVars
  /\ IF MountedPanel(v) = "proxy" THEN ProxyMounted ELSE ProxyUnmounted
  /\ IF MountedPanel(v) = "observer" THEN ObserverMounted ELSE ObserverUnmounted
  /\ IF MountedPanel(v) = "singleton" THEN SingletonMounted ELSE SingletonUnmounted
  /\ IF MountedPanel(v) = "decorator" THEN DecoratorMounted ELSE DecoratorUnmounted
  /\ IF MountedPanel(v) = "abstractFactory" THEN AfMounted ELSE AfUnmounted
  /\ IF MountedPanel(v) = "visitor" THEN VisitorMounted ELSE VisitorUnmounted
  /\ IF MountedPanel(v) = "factoryMethod" THEN FmMounted ELSE FmUnmounted
  /\ IF MountedPanel(v) = "adapter" THEN AdapterMounted ELSE AdapterUnmounted
\* Mount or unmount every panel according to the newly rendered value.
Remount(v) ==
  /\ IF MountedPanel(v) = "state" THEN StateMounted ELSE StateUnmounted
  /\ IF MountedPanel(v) = "proxy" THEN ProxyMounted ELSE ProxyUnmounted
  /\ IF MountedPanel(v) = "observer" THEN ObserverMounted ELSE ObserverUnmounted
  /\ IF MountedPanel(v) = "singleton" THEN SingletonMounted ELSE SingletonUnmounted
  /\ IF MountedPanel(v) = "decorator" THEN DecoratorMounted ELSE DecoratorUnmounted
  /\ IF MountedPanel(v) = "abstractFactory" THEN AfMounted ELSE AfUnmounted
  /\ IF MountedPanel(v) = "visitor" THEN VisitorMounted ELSE VisitorUnmounted
  /\ IF MountedPanel(v) = "factoryMethod" THEN FmMounted ELSE FmUnmounted
  /\ IF MountedPanel(v) = "adapter" THEN AdapterMounted ELSE AdapterUnmounted

\* @click="currentPattern = pattern.component" on tab i
SelectPattern(i) ==
  LET assigned == patterns(shell)[i].component
      \* Non-inlined templates assign through the setup-state proxy, which
      \* rebinds the name when handed a ref instead of writing .value.
      rebinds == build = "dev" /\ isRef(assigned)
      newVal == IF rebinds THEN RefValue(assigned) ELSE assigned
      rerender == ~rebinds /\ newVal # currentPattern
  IN /\ currentPattern' = newVal
     /\ IF rerender
          THEN /\ rendered' = newVal
               /\ activeTabs' = ActiveTabs(shell, newVal)
               /\ leftModified' = leftModified \cup ModifiedPanels
               /\ Remount(newVal)
          ELSE UNCHANGED <<rendered, activeTabs, leftModified, panelVars>>
     /\ UNCHANGED <<shell, build, clock, thrown>>

Tick ==
  /\ clock < MaxClock
  /\ clock' = clock + 1
  /\ UNCHANGED <<shellVars, thrown, panelVars>>

\* The application right after start-up: the shell has rendered the Singleton
\* panel, whose script has run once; no other panel exists.
Started(station) ==
  /\ currentPattern = Component("singleton")
  /\ rendered = Component("singleton")
  /\ activeTabs = ActiveTabs(shell, Component("singleton"))
  /\ leftModified = {}
  /\ clock = 0
  /\ thrown = FALSE
  /\ trafficLight = Undefined
  /\ stateOutput = ""
  /\ requestCount = 0
  /\ setStateCalls = 0
  /\ image1 = Undefined
  /\ image2 = Undefined
  /\ proxyOutput = <<>>
  /\ realImagesBuilt = [n \in 1..2 |-> 0]
  /\ displayCalls = [n \in 1..2 |-> 0]
  /\ weatherStation = station
  /\ observerOutput = <<>>
  /\ stationLogs = <<>>
  /\ observerGood = <<>>
  /\ observerBad = <<>>
  /\ singletonClass = Ref(LoadSingletonClass(1, 0))
  /\ singletonLoads = 1
  /\ eagerOutput = NoOutput
  /\ singletonGood = NoOutput
  /\ singletonBad = NoOutput
  /\ options = [milk |-> FALSE, sugar |-> FALSE, shot |-> FALSE]
  /\ toggleLog = <<>>
  /\ decoratorOutput = <<>>
  /\ decoratorGood = <<>>
  /\ decoratorBad = <<>>
  /\ factory = Undefined
  /\ app = Undefined
  /\ afOutput = <<>>
  /\ afGood = <<>>
  /\ afBad = <<>>
  /\ shapes = <<>>
  /\ visitorOutput = <<>>
  /\ visitLog = <<>>
  /\ visitorGood = <<>>
  /\ visitorBad = <<>>
  /\ logistics = Undefined
  /\ fmOutput = <<>>
  /\ transports = <<>>
  /\ deliveries = 0
  /\ adapterOutput = <<>>
  /\ logEventCalls = <<>>
  /\ lastAdapter = Undefined
  /\ adapterRuns = 0

Init ==
  /\ shell \in {"shallowRef", "markRaw"}
  /\ build \in {"dev", "prod"}
  /\ Started(Undefined)

Next ==
  \/ \E i \in Tabs : SelectPattern(i)
  \/ changeState
  \/ \E b \in 1..3 : loadImage(ButtonImageNumber(b))
  \/ changeTemperature
  \/ ObserverShowGoodExample
  \/ ObserverShowBadExample
  \/ testEagerSingleton
  \/ SingletonShowGoodExample
  \/ SingletonShowBadExample
  \/ \E name \in OptionNames : ToggleOption(name)
  \/ makeCoffee
  \/ DecoratorShowGoodExample
  \/ DecoratorShowBadExample
  \/ \E os \in {"Windows", "Mac"} : createUI(os)
  \/ AfShowGoodExample
  \/ AfShowBadExample
  \/ \E type \in {"area", "perimeter"} : runVisitor(type)
  \/ VisitorShowGoodExample
  \/ VisitorShowBadExample
  \/ \E type \in {"road", "sea"} : runLogistics(type)
  \/ runClientCode
  \/ Tick

Spec == Init /\ [][Next]_vars
(* ------------------- WeatherStation used on its own -------------------- *)
\* The class driven through its public methods, as a caller other than the
\* panel would: any observer may be subscribed or unsubscribed at any time.
StationSubscribe(o) ==
  /\ weatherStation' = Ref(subscribe(Deref(weatherStation), o))
  /\ UNCHANGED <<shellVars, clock, adapterPanelVars, thrown, visitorPanelVars, fmPanelVars,
                 statePanelVars, proxyPanelVars,
                 observerOutput, stationLogs, observerGood, observerBad,
                 singletonPanelVars, decoratorPanelVars, afPanelVars>>

StationUnsubscribe(o) ==
  /\ weatherStation' = Ref(unsubscribe(Deref(weatherStation), o))
  /\ UNCHANGED <<shellVars, clock, adapterPanelVars, thrown, visitorPanelVars, fmPanelVars,
                 statePanelVars, proxyPanelVars,
                 observerOutput, stationLogs, observerGood, observerBad,
                 singletonPanelVars, decoratorPanelVars, afPanelVars>>

StationSetTemperature(temp) ==
  /\ LET r == setTemperature(Deref(weatherStation), temp)
     IN /\ weatherStation' = Ref(r.ws)
        /\ stationLogs' = r.logs
  /\ UNCHANGED <<shellVars, clock, adapterPanelVars, thrown, visitorPanelVars, fmPanelVars,
                 statePanelVars, proxyPanelVars,
                 observerOutput, observerGood, observerBad,
                 singletonPanelVars, decoratorPanelVars, afPanelVars>>

InitStation ==
  /\ shell = "markRaw"
  /\ build = "prod"
  /\ Started(Ref(NewWeatherStation))

NextStation ==
  \/ \E o \in Observers : StationSubscribe(o)
  \/ \E o \in Observers : StationUnsubscribe(o)
  \/ \E temp \in Temps : StationSetTemperature(temp)

SpecStation == InitStation /\ [][NextStation]_vars

(* ============================== claims ================================= *)

\* C1: counted from a freshly mounted context (Red), the i-th request()
\* returns the action of the cycle STOP, GO, CAUTION, STOP, ..., and after
\* every multiple of three requests the current state is Red again.
CycleActions == <<"STOP", "GO", "CAUTION">>
C1_RequestCycle ==
  IsSet(trafficLight) =>
    /\ requestCount > 0 =>
         stateOutput = CycleActions[((requestCount - 1) % 3) + 1]
    /\ requestCount % 3 = 0 =>
         Deref(trafficLight).currentState = "RedState"
C1_Witness ==
  /\ IsSet(trafficLight)
  /\ requestCount = 6
  /\ stateOutput = "CAUTION"
  /\ Deref(trafficLight).currentState = "RedState"

\* C2: each ProxyImage constructs its RealImage at most once, and exactly
\* once as soon as display() has been called on it at least once.
C2_SingleConstruction ==
  \A n \in 1..2 :
    /\ realImagesBuilt[n] <= 1
    /\ displayCalls[n] >= 1 => realImagesBuilt[n] = 1
C2_Witness ==
  /\ displayCalls[1] = 3
  /\ realImagesBuilt[1] = 1
  /\ displayCalls[2] = 0

\* C3: the transcript of the first display() on a proxy has the creation
\* line and the load log; every later transcript of that proxy has neither
\* and has the reuse line instead; every transcript ends with the RealImage
\* display line.
HasLine(entry, kind) == \E i \in 1..Len(entry) : entry[i].kind = kind
\* positions in the output of the display() transcripts of image n
DisplayEntries(n) ==
  {k \in 2..Len(proxyOutput) :
     proxyOutput[k - 1] = <<Line("click", ImageNumberText(n))>>}
C3_Transcripts ==
  \A n \in 1..2 :
    \A k \in DisplayEntries(n) :
      LET first == \A j \in DisplayEntries(n) : k <= j
          entry == proxyOutput[k]
      IN /\ HasLine(entry, "creating") <=> first
         /\ HasLine(entry, "loadLog") <=> first
         /\ HasLine(entry, "reuse") <=> ~first
         /\ entry[Len(entry)].kind = "realDisplay"
C3_Witness ==
  /\ Len(proxyOutput) = 7
  /\ DisplayEntries(1) = {3, 7}
  /\ DisplayEntries(2) = {5}
  /\ HasLine(proxyOutput[7], "reuse")

\* C4: one setTemperature call on a station with M subscribed observers
\* returns the header line, the count line and then exactly M notification
\* entries, the i-th addressed to the i-th subscribed observer, so each
\* subscribed observer is notified exactly once and nobody else is; with
\* M = 0 there is no notification entry.
FanOut(observers, logs) ==
  /\ Len(logs) = 2 + Len(observers)
  /\ logs[1].kind = "header"
  /\ logs[2] = Entry("count", 0, Len(observers))
  /\ \A i \in 1..Len(observers) :
       logs[2 + i].kind = "update" /\ logs[2 + i].who = observers[i]
  /\ \A o \in Observers :
       Cardinality({i \in 1..Len(logs) :
                      logs[i].kind = "update" /\ logs[i].who = o})
         = IF Includes(observers, o) THEN 1 ELSE 0
C4_FanOut ==
  [][\A temp \in Temps :
       StationSetTemperature(temp) =>
         FanOut(Deref(weatherStation).observers, stationLogs')]_vars
C4_Witness ==
  /\ Len(Deref(weatherStation).observers) = 3
  /\ Deref(weatherStation).observers[1] = 3
  /\ Len(stationLogs) = 5
  /\ stationLogs[3].who = 3

\* C5: within one mounted Singleton panel every getInstance() call returns
\* the one instance of the panel's class: every identity comparison shown
\* is true and every operation() text carries that instance's creation time.
ShowsOnly(out, time) ==
  /\ \A i \in 1..Len(out.ops) : out.ops[i].time = time
  /\ \A i \in 1..Len(out.same) : out.same[i]
C5_SameInstance ==
  IsSet(singletonClass) =>
    LET cls == Deref(singletonClass)
    IN /\ cls.constructed = 1
       /\ ShowsOnly(eagerOutput, cls.instance.creationTime)
       /\ ShowsOnly(singletonGood, cls.instance.creationTime)
C5_Witness ==
  /\ IsSet(singletonClass)
  /\ Len(eagerOutput.ops) = 2
  /\ Len(singletonGood.ops) = 3
  /\ clock > Deref(singletonClass).instance.creationTime

\* C6: the Singleton holder is created once for the life of the application:
\* the class declaration is evaluated once, and whenever getInstance() can be
\* called it returns the instance created first, with its creation time.
C6_CreatedOnce ==
  /\ singletonLoads = 1
  /\ IsSet(singletonClass) =>
       getInstance(Deref(singletonClass)).result = LoadSingletonClass(1, 0).instance

\* C7: an order reports the total cost 3000 + 500 (milk) + 200 (sugar)
\* + 700 (shot) for the toggles as they stand when it is placed, whatever
\* order the checkboxes were toggled in.
C7_Cost ==
  [][makeCoffee =>
       decoratorOutput'[1].cost =
         3000 + (IF options.milk THEN 500 ELSE 0)
              + (IF options.sugar THEN 200 ELSE 0)
              + (IF options.shot THEN 700 ELSE 0)]_vars
C7_Witness ==
  /\ toggleLog = <<"shot", "milk">>
  /\ decoratorOutput # <<>>
  /\ decoratorOutput[1].cost = 4200

\* C8: an order's description is the base name followed by the fragments
\* of the selected layers in the order milk, sugar, shot, whatever order the
\* checkboxes were toggled in.
C8_Description ==
  [][makeCoffee =>
       decoratorOutput'[1].description =
         <<"espresso">>
           \o (IF options.milk THEN <<"+ milk">> ELSE <<>>)
           \o (IF options.sugar THEN <<"+ sugar">> ELSE <<>>)
           \o (IF options.shot THEN <<"+ shot">> ELSE <<>>)]_vars
C8_Witness ==
  /\ toggleLog = <<"shot", "sugar", "milk">>
  /\ decoratorOutput # <<>>
  /\ decoratorOutput[1].description = <<"espresso", "+ milk", "+ sugar", "+ shot">>

\* C9: an Application built through the factory path holds a button and a
\* checkbox of the family of its own factory, and every text painted
\* through that path shows a pair of one family.
Family(product) ==
  IF product \in {"WinButton", "WinCheckbox"} THEN "Windows" ELSE "macOS"
FactoryFamily(f) == IF f = "WinFactory" THEN "Windows" ELSE "macOS"
PaintFamily(text) ==
  IF text \in {"Windows button", "Windows checkbox"} THEN "Windows" ELSE "macOS"
C9_OneFamily ==
  /\ IsSet(app) =>
       LET a == Deref(app)
       IN /\ IsSet(a.button) /\ IsSet(a.checkbox)
          /\ Family(Deref(a.button)) = FactoryFamily(a.factory)
          /\ Family(Deref(a.checkbox)) = FactoryFamily(a.factory)
          /\ PaintFamily(afOutput[2]) = FactoryFamily(a.factory)
          /\ PaintFamily(afOutput[3]) = FactoryFamily(a.factory)
  /\ afGood # <<>> =>
       /\ PaintFamily(afGood[4]) = "Windows" /\ PaintFamily(afGood[5]) = "Windows"
       /\ PaintFamily(afGood[8]) = "macOS" /\ PaintFamily(afGood[9]) = "macOS"
C9_Witness ==
  /\ IsSet(app)
  /\ Deref(app).factory = "MacFactory"
  /\ Deref(app).checkbox = Ref("MacCheckbox")
  /\ afGood # <<>>

\* C10: what the shell renders as the active module is always one of the
\* nine pattern components, and right after a click on navigation control i
\* it is the component of entry i.
C10_RendersRegisteredComponent ==
  /\ [](\E i \in Tabs : rendered = Component(PatternKeys[i]))
  /\ [][\A i \in Tabs :
          SelectPattern(i) => rendered' = Component(PatternKeys[i])]_vars

\* C11: a click on the navigation control of the entry whose module is the
\* one on display is a no-op: the active value stays what it was, the module
\* on display is not remounted and no panel's state changes.
C11_ActiveClickNoOp ==
  [][\A i \in Tabs :
       (SelectPattern(i) /\ rendered = Component(PatternKeys[i]))
         => UNCHANGED <<currentPattern, rendered, activeTabs, panelVars>>]_vars

OtherImage(n) == IF n = 1 THEN image2 ELSE image1
FileOf(n) == IF n = 1 THEN File1 ELSE File2
C13_SeparateCaches ==
  /\ [](IsSet(image1) /\ IsSet(image2) =>
          \A n \in 1..2 :
            LET p == Deref(IF n = 1 THEN image1 ELSE image2)
            IN /\ p.filename = FileOf(n)
               /\ displayCalls[n] = 0 => p.realImage = Undefined
               /\ IsSet(p.realImage) => Deref(p.realImage).filename = FileOf(n))
  /\ [][\A n \in 1..2 :
          loadImage(n) =>
            /\ OtherImage(n)' = OtherImage(n)
            /\ realImagesBuilt'[3 - n] = realImagesBuilt[3 - n]
            /\ LET logs == proxyOutput'[Len(proxyOutput')]
               IN \A k \in 1..Len(logs) : logs[k].arg # FileOf(3 - n)]_vars
\* image1 loaded and displayed again while image2 was never touched, and
\* image2 loaded while holding its own file
C13_Witness ==
  /\ IsSet(image1) /\ IsSet(image2)
  /\ displayCalls[1] = 2
  /\ displayCalls[2] = 1
  /\ Deref(Deref(image1).realImage).filename = File1
  /\ Deref(Deref(image2).realImage).filename = File2

\* C14 as stated: in every panel with a comparison, showGoodExample leaves
\* the bad transcript as it was and showBadExample leaves the good
\* transcript as it was.
C14_IndependentTranscripts ==
  [][/\ SingletonShowGoodExample => singletonBad' = singletonBad
     /\ SingletonShowBadExample => singletonGood' = singletonGood
     /\ ObserverShowGoodExample => observerBad' = observerBad
     /\ ObserverShowBadExample => observerGood' = observerGood
     /\ AfShowGoodExample => afBad' = afBad
     /\ AfShowBadExample => afGood' = afGood
     /\ DecoratorShowGoodExample => decoratorBad' = decoratorBad
     /\ DecoratorShowBadExample => decoratorGood' = decoratorGood
     /\ VisitorShowGoodExample => visitorBad' = visitorBad
     /\ VisitorShowBadExample => visitorGood' = visitorGood]_vars

\* C14, amended: in every panel with a comparison, showGoodExample fills
\* the good transcript and empties the bad one, and showBadExample fills the
\* bad transcript and empties the good one, so a panel never shows both
\* transcripts at once.
C14_OneTranscriptAtATime ==
  /\ [](/\ singletonGood = NoOutput \/ singletonBad = NoOutput
        /\ observerGood = <<>> \/ observerBad = <<>>
        /\ afGood = <<>> \/ afBad = <<>>
        /\ decoratorGood = <<>> \/ decoratorBad = <<>>
        /\ visitorGood = <<>> \/ visitorBad = <<>>)
  /\ [][/\ SingletonShowGoodExample =>
             singletonGood' # NoOutput /\ singletonBad' = NoOutput
        /\ SingletonShowBadExample =>
             singletonBad' # NoOutput /\ singletonGood' = NoOutput
        /\ ObserverShowGoodExample => observerGood' # <<>> /\ observerBad' = <<>>
        /\ ObserverShowBadExample => observerBad' # <<>> /\ observerGood' = <<>>
        /\ AfShowGoodExample => afGood' # <<>> /\ afBad' = <<>>
        /\ AfShowBadExample => afBad' # <<>> /\ afGood' = <<>>
        /\ DecoratorShowGoodExample => decoratorGood' # <<>> /\ decoratorBad' = <<>>
        /\ DecoratorShowBadExample => decoratorBad' # <<>> /\ decoratorGood' = <<>>
        /\ VisitorShowGoodExample => visitorGood' # <<>> /\ visitorBad' = <<>>
        /\ VisitorShowBadExample => visitorBad' # <<>> /\ visitorGood' = <<>>]_vars
\* the Singleton panel shows the good transcript alone, next to the result
\* of the eager test
C14_Witness ==
  /\ singletonGood # NoOutput
  /\ singletonBad = NoOutput
  /\ eagerOutput # NoOutput

\* C15: unsubscribe(o) on a station where o is subscribed removes exactly o
\* and keeps the others in their order; where o is not subscribed it leaves
\* the list as it was; and a setTemperature call notifies each observer of
\* the list as it then stands exactly once and nobody else, so never an
\* observer that was unsubscribed and not subscribed again.
RECURSIVE Without(_, _)
Without(seq, x) ==
  IF seq = <<>>
    THEN <<>>
    ELSE (IF Head(seq) = x THEN <<>> ELSE <<Head(seq)>>) \o Without(Tail(seq), x)
C15_Unsubscribe ==
  [][/\ \A o \in Observers :
          StationUnsubscribe(o) =>
            LET before == Deref(weatherStation).observers
                after == Deref(weatherStation').observers
            IN /\ after = Without(before, o)
               /\ ~Includes(after, o)
               /\ Len(after) = Len(before) - (IF Includes(before, o) THEN 1 ELSE 0)
     /\ \A temp \in Temps :
          StationSetTemperature(temp) =>
            \A o \in Observers :
              Cardinality({k \in 1..Len(stationLogs') :
                             stationLogs'[k] = update(o, temp)})
                = IF Includes(Deref(weatherStation).observers, o) THEN 1 ELSE 0]_vars
\* observer 2 was unsubscribed from between 1 and 3 after all three had
\* been notified
C15_Witness ==
  /\ Deref(weatherStation).observers = <<1, 3>>
  /\ Len(stationLogs) = 5
  /\ stationLogs[3].who = 1 /\ stationLogs[4].who = 2 /\ stationLogs[5].who = 3

\* C16: a runVisitor click prints one line per element of shapes, in order;
\* with the AreaCalculator the number on the line of a Circle of radius r
\* is pi*r*r and on the line of a Square of side s it is s*s; with the
\* PerimeterCalculator it is 2*pi*r and 4*s; each number is printed rounded
\* to two decimals.
\* fixed hundredths are x (in millionths) rounded to two decimals
RoundsTo(fixed, x) == fixed * 10000 - 5000 <= x /\ x < fixed * 10000 + 5000
C16_VisitorFormulas ==
  [][\A type \in {"area", "perimeter"} :
       runVisitor(type) =>
         /\ Len(visitorOutput') = 1 + Len(shapes)
         /\ \A i \in 1..Len(shapes) :
              LET e == shapes[i]
                  line == visitorOutput'[i + 1]
              IN /\ line.op = type
                 /\ e.class = "Circle" =>
                      /\ line.shape = "circle" /\ line.dim = e.radius
                      /\ type = "area" =>
                           RoundsTo(line.fixed, MathPI * e.radius * e.radius)
                      /\ type = "perimeter" =>
                           RoundsTo(line.fixed, 2 * MathPI * e.radius)
                 /\ e.class = "Square" =>
                      /\ line.shape = "square" /\ line.dim = e.side
                      /\ type = "area" => line.fixed = 100 * e.side * e.side
                      /\ type = "perimeter" => line.fixed = 100 * 4 * e.side]_vars
\* the area run: 314.16 for the circle of radius 10, 64.00 for the square
\* of side 8, 78.54 for the circle of radius 5
C16_Witness ==
  /\ Len(visitorOutput) = 4
  /\ visitorOutput[1].op = "area"
  /\ visitorOutput[2].fixed = 31416
  /\ visitorOutput[3].fixed = 6400
  /\ visitorOutput[4].fixed = 7854

\* C17: during a runVisitor click the i-th element's accept makes exactly
\* one visit call, visitCircle when the element is a Circle and visitSquare
\* when it is a Square, handing over the element itself; and the shapes
\* collection of a mounted Visitor panel is the same three elements before
\* and after every click.
C17_DoubleDispatch ==
  /\ [](MountedPanel(rendered) = "visitor" =>
          shapes = <<[class |-> "Circle", radius |-> 10],
                     [class |-> "Square", side |-> 8],
                     [class |-> "Circle", radius |-> 5]>>)
  /\ [][\A type \in {"area", "perimeter"} :
          runVisitor(type) =>
            /\ shapes' = shapes
            /\ Len(visitLog') = Len(shapes)
            /\ \A i \in 1..Len(shapes) :
                 /\ visitLog'[i].arg = shapes[i]
                 /\ visitLog'[i].method = "visitCircle" <=> shapes[i].class = "Circle"
                 /\ visitLog'[i].method = "visitSquare" <=> shapes[i].class = "Square"]_vars
\* the perimeter run: circle, square, circle visited in that order
C17_Witness ==
  /\ Len(visitLog) = 3
  /\ visitLog[1].method = "visitCircle" /\ visitLog[1].arg.radius = 10
  /\ visitLog[2].method = "visitSquare" /\ visitLog[2].arg.side = 8
  /\ visitLog[3].method = "visitCircle" /\ visitLog[3].arg.radius = 5
  /\ visitorOutput[1].op = "perimeter"

\* C18: a request() returns the action of the state that is current when it
\* starts (Red: STOP, Green: GO, Yellow: CAUTION) and leaves the context in
\* the next state of the cycle Red, Green, Yellow, Red; the context's
\* setState has then been called exactly once per request made.
C18_RequestTransitions ==
  /\ [](setStateCalls = requestCount)
  /\ [][changeState =>
          LET before == Deref(trafficLight).currentState
              after == Deref(trafficLight').currentState
          IN /\ before = "RedState" => stateOutput' = "STOP" /\ after = "GreenState"
             /\ before = "GreenState" => stateOutput' = "GO" /\ after = "YellowState"
             /\ before = "YellowState" => stateOutput' = "CAUTION" /\ after = "RedState"
             /\ setStateCalls' = setStateCalls + 1]_vars
\* two requests made: GO was returned and the context is Yellow
C18_Witness ==
  /\ IsSet(trafficLight)
  /\ requestCount = 2
  /\ setStateCalls = 2
  /\ stateOutput = "GO"
  /\ Deref(trafficLight).currentState = "YellowState"

\* C19: no handler ends in an error: whenever the State panel's button can
\* be clicked its trafficLight is assigned, whenever the Proxy panel's
\* buttons can be clicked image1 and image2 are assigned, an Application
\* kept by the Abstract Factory panel has had createUI run on it, and no
\* click so far has thrown.
C19_Totality ==
  /\ ~thrown
  /\ MountedPanel(rendered) = "state" => IsSet(trafficLight)
  /\ MountedPanel(rendered) = "proxy" => IsSet(image1) /\ IsSet(image2)
  /\ IsSet(app) => IsSet(Deref(app).button) /\ IsSet(Deref(app).checkbox)
\* requests were made on the State panel, and later the Abstract Factory
\* panel has painted both a themed UI and the good example
C19_Witness ==
  /\ ~thrown
  /\ "state" \in leftModified
  /\ MountedPanel(rendered) = "abstractFactory"
  /\ IsSet(app)
  /\ Len(afOutput) = 3
  /\ afGood # <<>>

\* C20: a runLogistics('road') click selects RoadLogistics, whose
\* createTransport yields a Truck, and a runLogistics('sea') click selects
\* SeaLogistics, whose createTransport yields a Ship; every planDelivery
\* call makes one new product, never one made before; and the text shown
\* is fixed by the button clicked alone.
C20_FactoryMethod ==
  /\ [](Len(transports) = deliveries)
  /\ [][\A type \in {"road", "sea"} :
          runLogistics(type) =>
            /\ logistics' =
                 Ref(IF type = "road" THEN "RoadLogistics" ELSE "SeaLogistics")
            /\ Len(transports') = Len(transports) + 1
            /\ SubSeq(transports', 1, Len(transports)) = transports
            /\ LET made == transports'[Len(transports')]
               IN /\ made.class = IF type = "road" THEN "Truck" ELSE "Ship"
                  /\ \A k \in 1..Len(transports) : transports[k] # made
            /\ fmOutput' = <<"plan", IF type = "road" THEN "truck by road"
                                                      ELSE "ship by sea">>]_vars
\* road, sea, road: three products, and the truck text after the ship run
C20_Witness ==
  /\ deliveries = 3
  /\ transports[1].class = "Truck"
  /\ transports[2].class = "Ship"
  /\ transports[3].class = "Truck"
  /\ logistics = Ref("RoadLogistics")
  /\ fmOutput = <<"plan", "truck by road">>

\* C21: a runClientCode click makes one new OldAnalyticsService and one
\* AnalyticsAdapter holding it; sendRequest calls logEvent exactly once, on
\* that service, with the type and amount of the client's data (purchase,
\* 15000); the text shown ends with the message logEvent returned; and the
\* adapter holds the same service after the call.
C21_Adapter ==
  [][runClientCode =>
       LET service == [class |-> "OldAnalyticsService", oid |-> adapterRuns + 1]
       IN /\ Len(logEventCalls') = 1
          /\ logEventCalls'[1] =
               [on |-> service, eventName |-> "purchase", eventValue |-> 15000]
          /\ \A k \in 1..Len(logEventCalls) : logEventCalls[k].on # service
          /\ Deref(lastAdapter').adaptee = service
          /\ Len(adapterOutput') = 2
          /\ adapterOutput'[1].from = "Adapter"
          /\ adapterOutput'[2] = ALine("OldAnalytics", "purchase", 15000)]_vars
\* the second click: the second service was wrapped and called once
C21_Witness ==
  /\ adapterRuns = 2
  /\ Len(logEventCalls) = 1
  /\ logEventCalls[1].on.oid = 2
  /\ Deref(lastAdapter).adaptee.oid = 2
  /\ adapterOutput[2].value = 15000

\* C22: the random temperature of a changeTemperature click decides nothing
\* but the number shown: after k clicks on a mounted Observer panel the
\* transcript has the same lines for every choice of the k temperatures
\* (kind of line, observer addressed, observer count) and differs only in
\* the temperature printed, and the observer list is the same; so two runs
\* with the same clicks and different temperatures agree on all of that.
\* the transcript with the temperatures blanked out
Blanked(out) ==
  [i \in 1..Len(out) |->
     [kind |-> out[i].kind, who |-> out[i].who,
      n |-> IF out[i].kind \in {"header", "update"} THEN 0 ELSE out[i].n]]
\* what k clicks print, temperatures blanked out
RECURSIVE ClicksShape(_)
ClicksShape(k) ==
  IF k = 0
    THEN <<Entry("initialized", 0, 0), Entry("subscribed", 0, 0)>>
    ELSE ClicksShape(k - 1)
           \o <<Entry("header", 0, 0), Entry("count", 0, 2),
                Entry("update", MobileDisplay, 0), Entry("update", WebDisplay, 0)>>
C22_RandomnessCosmetic ==
  MountedPanel(rendered) = "observer" =>
    /\ Deref(weatherStation).observers = <<MobileDisplay, WebDisplay>>
    /\ (Len(observerOutput) - 2) % 4 = 0
    /\ Blanked(observerOutput) = ClicksShape((Len(observerOutput) - 2) \div 4)
\* two clicks that drew different temperatures
C22_Witness ==
  /\ MountedPanel(rendered) = "observer"
  /\ Len(observerOutput) = 10
  /\ observerOutput[3].n # observerOutput[7].n
  /\ observerOutput[5].n = observerOutput[3].n
  /\ observerOutput[9].n = observerOutput[7].n

\* C23: a button of one family painted next to a checkbox of the other is
\* shown by the bad example and by nothing else: the bad transcript, when
\* present, has the Windows button followed by the macOS checkbox; the
\* output of createUI and the good transcript never have a mixed pair; a
\* mixed pair only comes up in a showBadExample step; and that step leaves
\* factory, app and the output of createUI as they were.
MixedPair(text) ==
  \E i \in 1..(Len(text) - 1) :
    \/ text[i] = "Windows button" /\ text[i + 1] = "macOS checkbox"
    \/ text[i] = "macOS button" /\ text[i + 1] = "Windows checkbox"
C23_MixedOnlyInBadExample ==
  /\ [](/\ ~MixedPair(afOutput)
        /\ ~MixedPair(afGood)
        /\ afBad # <<>> => MixedPair(afBad))
  /\ [][(~MixedPair(afBad) /\ MixedPair(afBad')) => AfShowBadExample]_vars
  /\ [][AfShowBadExample => UNCHANGED <<factory, app, afOutput>>]_vars
\* a macOS UI made through the factory path stays next to the mixed pair of
\* the bad example
C23_Witness ==
  /\ MixedPair(afBad)
  /\ IsSet(app)
  /\ Deref(app).factory = "MacFactory"
  /\ afOutput[2] = "macOS button"
  /\ afOutput[3] = "macOS checkbox"

\* C24: a ProxyImage comes out of its constructor without a RealImage; a
\* mounted proxy has no RealImage exactly as long as display() was never
\* called on it, none was constructed for it until then, and a RealImage it
\* holds is kept for as long as the proxy lives.
ProxyOf(n) == IF n = 1 THEN image1 ELSE image2
C24_Lazy ==
  /\ [](/\ NewProxyImage(File1).realImage = Undefined
        /\ NewProxyImage(File2).realImage = Undefined
        /\ \A n \in 1..2 :
             IsSet(ProxyOf(n)) =>
               /\ displayCalls[n] = 0 <=> Deref(ProxyOf(n)).realImage = Undefined
               /\ displayCalls[n] = 0 => realImagesBuilt[n] = 0)
  /\ [][\A n \in 1..2 :
          (/\ IsSet(ProxyOf(n)) /\ IsSet(ProxyOf(n)')
           /\ IsSet(Deref(ProxyOf(n)).realImage))
            => Deref(ProxyOf(n)').realImage = Deref(ProxyOf(n)).realImage]_vars
\* one click on image 2: it is loaded, image 1 is still not
C24_Witness ==
  /\ IsSet(image1) /\ IsSet(image2)
  /\ Len(proxyOutput) = 3
  /\ displayCalls[2] = 1
  /\ IsSet(Deref(image2).realImage)
  /\ Deref(image1).realImage = Undefined

\* C25: the navigation controls marked active are always exactly the one
\* whose module is rendered, so at start-up the Singleton control is the
\* one marked; and right after a click on control i exactly control i is
\* marked.
C25_ActiveTabMarksRendered ==
  /\ [](\A i \in Tabs :
          i \in activeTabs <=> rendered = Component(PatternKeys[i]))
  /\ [][\A i \in Tabs : SelectPattern(i) => activeTabs' = {i}]_vars

\* C26: subscribe on an observer that is already in the list leaves the
\* list as it was, and on any other observer appends it; so the list of a
\* station never holds an observer twice, and the station of a mounted
\* Observer panel holds exactly the mobile and the web display, in that
\* order.
C26_NoDuplicateSubscription ==
  /\ [](IsSet(weatherStation) =>
          LET observers == Deref(weatherStation).observers
          IN /\ \A i, j \in 1..Len(observers) :
                  observers[i] = observers[j] => i = j
             /\ MountedPanel(rendered) = "observer" =>
                  observers = <<MobileDisplay, WebDisplay>>)
  /\ [][\A o \in Observers :
          (IsSet(weatherStation) /\ StationSubscribe(o)) =>
            LET before == Deref(weatherStation).observers
                after == Deref(weatherStation').observers
            IN after = IF Includes(before, o) THEN before ELSE Append(before, o)]_vars
\* all observers subscribed, none twice, the last one notified last
C26_Witness ==
  /\ Deref(weatherStation).observers = <<2, 1, 3>>
  /\ Len(stationLogs) = 5
  /\ stationLogs[5].who = 3

\* C27: a setTemperature(t) call stores t before it notifies: the header
\* and every notification it returns carry t, also when the temperature
\* stored before was another one, and the station holds t afterwards.
C27_StoresBeforeNotify ==
  [][\A temp \in Temps :
       StationSetTemperature(temp) =>
         /\ Deref(weatherStation').temperature = temp
         /\ stationLogs'[1] = Entry("header", 0, temp)
         /\ \A k \in 1..Len(stationLogs') :
              stationLogs'[k].kind = "update" => stationLogs'[k].n = temp
         /\ Cardinality({k \in 1..Len(stationLogs') : stationLogs'[k].kind = "update"})
              = Len(Deref(weatherStation).observers)]_vars
\* three observers were told the temperature now stored, which is not the
\* one a new station starts with
C27_Witness ==
  /\ Len(Deref(weatherStation).observers) = 3
  /\ Deref(weatherStation).temperature = TempRange - 1 - TempOffset
  /\ Len(stationLogs) = 5
  /\ \A k \in 3..5 : stationLogs[k].n = TempRange - 1 - TempOffset

\* C28: whenever a context exists its current state is one of Red, Green
\* and Yellow; the state of a context only ever changes Red to Green, Green
\* to Yellow or Yellow to Red, and every request makes one of these changes:
\* none leaves the state as it was, none skips a state.
LightStates == {"RedState", "GreenState", "YellowState"}
LightCycle == {<<"RedState", "GreenState">>, <<"GreenState", "YellowState">>,
               <<"YellowState", "RedState">>}
C28_OnlyCycleTransitions ==
  /\ [](IsSet(trafficLight) => Deref(trafficLight).currentState \in LightStates)
  /\ [][(IsSet(trafficLight) /\ IsSet(trafficLight')) =>
          LET before == Deref(trafficLight).currentState
              after == Deref(trafficLight').currentState
          IN /\ after # before => <<before, after>> \in LightCycle
             /\ requestCount' # requestCount =>
                  /\ after # before
                  /\ <<before, after>> \in LightCycle]_vars
\* the third request has just taken the context from Yellow back to Red
C28_Witness ==
  /\ IsSet(trafficLight)
  /\ requestCount = 3
  /\ stateOutput = "CAUTION"
  /\ Deref(trafficLight).currentState = "RedState"

\* C29: a click on any of the three buttons leaves the entries already in
\* the output list as they are and appends exactly two: the click header of
\* the image chosen, then the transcript display() returns for that image;
\* a click on the third button is the same step as a click on the first.
C29_AppendOnly ==
  /\ [][\A b \in 1..3 :
          (loadImage(ButtonImageNumber(b)) /\ IsSet(image1) /\ IsSet(image2)) =>
            LET n == ButtonImageNumber(b)
                chosen == IF b = 2 THEN Deref(image2) ELSE Deref(image1)
                old == Len(proxyOutput)
            IN /\ Len(proxyOutput') = old + 2
               /\ SubSeq(proxyOutput', 1, old) = proxyOutput
               /\ proxyOutput'[old + 1] = <<Line("click", ImageNumberText(n))>>
               /\ proxyOutput'[old + 2] = display(chosen).logs]_vars
  /\ [][loadImage(ButtonImageNumber(3)) <=> loadImage(ButtonImageNumber(1))]_vars
\* three clicks, the second and the third on image 1: seven entries, the
\* mount line still first and the second transcript of image 1 a reuse
C29_Witness ==
  /\ Len(proxyOutput) = 7
  /\ proxyOutput[1] = <<Line("proxiesCreated", "")>>
  /\ proxyOutput[2] = <<Line("click", "2")>>
  /\ proxyOutput[4] = <<Line("click", "1")>>
  /\ Len(proxyOutput[5]) = 4
  /\ proxyOutput[6] = <<Line("click", "1")>>
  /\ proxyOutput[7] = <<Line("displayCalled", File1), Line("reuse", ""),
                        Line("realDisplay", File1)>>

\* C30: each hard-coded subclass of the bad example returns the cost and
\* the description of SimpleEspresso wrapped by the decorators its name
\* lists, in the order milk, sugar, shot: 3500, 3700 and 4200; an order
\* placed with those options selected shows what the subclass returns.
SubclassOptions(class) ==
  [milk |-> TRUE,
   sugar |-> class = "EspressoWithMilkAndSugar",
   shot |-> class = "EspressoWithMilkAndShot"]
SubclassPrice(class) ==
  CASE class = "EspressoWithMilk" -> 3500
    [] class = "EspressoWithMilkAndSugar" -> 3700
    [] class = "EspressoWithMilkAndShot" -> 4200
C30_SubclassesAgree ==
  /\ [](\A class \in SubclassNames :
          LET sub == NewSubclassCoffee(class)
              chain == BuildCoffee(SubclassOptions(class))
          IN /\ getCostSubclass(sub) = getCost(chain)
             /\ getCostSubclass(sub) = SubclassPrice(class)
             /\ getDescriptionSubclass(sub) = getDescription(chain))
  /\ [][\A class \in SubclassNames :
          (makeCoffee /\ options = SubclassOptions(class)) =>
            decoratorOutput' =
              <<[description |-> getDescriptionSubclass(NewSubclassCoffee(class)),
                 cost |-> getCostSubclass(NewSubclassCoffee(class))]>>]_vars
\* an order placed with milk and shot selected shows what
\* EspressoWithMilkAndShot returns
C30_Witness ==
  /\ toggleLog = <<"milk", "shot">>
  /\ options = SubclassOptions("EspressoWithMilkAndShot")
  /\ decoratorOutput =
       <<[description |-> getDescriptionSubclass(NewSubclassCoffee("EspressoWithMilkAndShot")),
          cost |-> getCostSubclass(NewSubclassCoffee("EspressoWithMilkAndShot"))]>>
====
